---- MODULE Spec2Model ----
(***************************************************************************)
(* Trailing-slash middleware of salvo (extra/src/trailing_slash.rs).       *)
(*                                                                         *)
(* Strings are sequences of one-character strings.  An Option<T> is a      *)
(* sequence of length at most one: <<>> is None, <<x>> is Some(x).         *)
(***************************************************************************)
EXTENDS Integers, Sequences, FiniteSets, TLC

\* ------------------------------------------------------------------ bounds
MaxPathLen == 4
MaxHops == 2

\* --------------------------------------------------------- program constants
MOVED_PERMANENTLY == 301
TEMPORARY_REDIRECT == 307
STATUS_OK == 200

\* ------------------------------------------------------------------ strings
PathChars == {"/", ".", "a"}
None == <<>>
Some(x) == <<x>>
is_some(o) == o # <<>>
unwrap(o) == o[1]

Strings(chars, n) == UNION {[1..k -> chars] : k \in 0..n}

\* str::ends_with(c)
ends_with(s, c) == Len(s) > 0 /\ s[Len(s)] = c

\* str::contains(c)
contains(s, c) == \E i \in 1..Len(s) : s[i] = c

\* str::trim_end_matches(c): drop the last character while it is c
RECURSIVE trim_end_matches(_, _)
trim_end_matches(s, c) ==
    IF Len(s) > 0 /\ s[Len(s)] = c
    THEN trim_end_matches(SubSeq(s, 1, Len(s) - 1), c)
    ELSE s

\* position of the last c in s[1..n], scanning from the end; 0 if there is none
RECURSIVE rfind(_, _, _)
rfind(s, c, n) ==
    IF n = 0 THEN 0
    ELSE IF s[n] = c THEN n
    ELSE rfind(s, c, n - 1)

\* position of the first c in s[i..], scanning from the front; 0 if there is none
RECURSIVE find(_, _, _)
find(s, c, i) ==
    IF i > Len(s) THEN 0
    ELSE IF s[i] = c THEN i
    ELSE find(s, c, i + 1)

\* str::rsplit_once(c): Some((before, after)) around the last c, else None
rsplit_once(s, c) ==
    LET i == rfind(s, c, Len(s))
    IN  IF i = 0 THEN None
        ELSE Some(<<SubSeq(s, 1, i - 1), SubSeq(s, i + 1, Len(s))>>)

\* ---------------------------------------------------------------- http::Uri
\* A Uri is [scheme, authority : Option<token>, path : string,
\* query : Option<string>]; path and query are the PathAndQuery part.
SchemeTok == "http://"
AuthorityTok == "host"
QueryTexts == {<<>>, <<"k">>}

\* PathAndQuery::from_str: the text before the first '?' is the path, the text
\* after it the query
PathAndQuery_from_str(s) ==
    LET i == find(s, "?", 1)
    IN  IF i = 0 THEN [path |-> s, query |-> None]
        ELSE [path |-> SubSeq(s, 1, i - 1), query |-> Some(SubSeq(s, i + 1, Len(s)))]

\* PathAndQuery::path: an empty path component reads as "/"
PathAndQuery_path(pq) == IF pq.path = <<>> THEN <<"/">> ELSE pq.path

\* Uri::has_path: the path-and-query text is non-empty or there is a scheme
Uri_has_path(uri) ==
    uri.path # <<>> \/ is_some(uri.query) \/ is_some(uri.scheme)

\* Uri::path
Uri_path(uri) ==
    IF Uri_has_path(uri)
    THEN PathAndQuery_path([path |-> uri.path, query |-> uri.query])
    ELSE <<>>

\* Uri::query
Uri_query(uri) == uri.query

\* A Result is its Ok value, or a record with the single field err
Err(e) == [err |-> e]
is_err(r) == DOMAIN r = {"err"}

\* Uri::from_parts with a path-and-query present: a scheme needs an authority,
\* and an authority next to a path-and-query needs a scheme
Uri_from_parts(scheme, authority, pq) ==
    IF is_some(scheme) /\ ~is_some(authority) THEN Err("AuthorityMissing")
    ELSE IF ~is_some(scheme) /\ is_some(authority) THEN Err("SchemeMissing")
    ELSE [scheme |-> scheme, authority |-> authority,
          path |-> pq.path, query |-> pq.query]

\* Display for Uri: scheme, authority, path(), then '?' and the query
Uri_to_string(uri) ==
    (IF is_some(uri.scheme) THEN <<unwrap(uri.scheme)>> ELSE <<>>)
    \o (IF is_some(uri.authority) THEN <<unwrap(uri.authority)>> ELSE <<>>)
    \o Uri_path(uri)
    \o (IF is_some(Uri_query(uri)) THEN <<"?">> \o unwrap(Uri_query(uri)) ELSE <<>>)

\* Uri::from_str: Err on the empty string; a leading '/' or '*'
\* is origin form; a leading scheme is absolute form; a lone authority is
\* authority form
Uri_from_str(s) ==
    IF s = <<>> THEN Err("Empty")
    ELSE IF s[1] \in {"/", "*"}
    THEN LET pq == PathAndQuery_from_str(s)
         IN  [scheme |-> None, authority |-> None, path |-> pq.path, query |-> pq.query]
    ELSE IF s[1] = SchemeTok
    THEN IF Len(s) < 2 \/ s[2] # AuthorityTok THEN Err("InvalidFormat")
         ELSE LET pq == PathAndQuery_from_str(SubSeq(s, 3, Len(s)))
              IN  [scheme |-> Some(SchemeTok), authority |-> Some(AuthorityTok),
                   path |-> pq.path, query |-> pq.query]
    ELSE IF s = <<AuthorityTok>>
    THEN [scheme |-> None, authority |-> Some(AuthorityTok), path |-> <<>>, query |-> None]
    ELSE Err("InvalidFormat")

\* The request URIs a client can send: origin form ("/a/?k", "*"), absolute
\* form ("http://host/a") and authority form ("host")
RequestTexts ==
    LET paths == {p \in Strings(PathChars, MaxPathLen) : p # <<>> /\ p[1] = "/"}
        tails == {<<>>} \cup {<<"?">> \o q : q \in QueryTexts}
    IN  {p \o t : p \in paths, t \in tails}
        \cup {<<SchemeTok, AuthorityTok>> \o p \o t :
                p \in paths \cup {<<>>}, t \in tails}
        \cup {<<"*">>, <<AuthorityTok>>}

RequestUris == {Uri_from_str(s) : s \in RequestTexts}

\* ------------------------------------------------- Request, Response, FlowCtrl
\* Response: status_code : Option<StatusCode>, location : Option<string>
\* (the Location header), body
Response_new(body) == [status_code |-> None, location |-> None, body |-> body]

\* Response::set_body
set_body(res, body) == [res EXCEPT !.body = body]

\* FlowCtrl::skip_rest
skip_rest(ctrl) == [ctrl EXCEPT !.skip_rest = TRUE]

\* Redirect::with_status_code(code, uri): Ok(redirect) or Err; `ok` is the
\* outcome of the construction
Redirect_with_status_code(code, uri, ok) ==
    IF ok THEN [status_code |-> code, location |-> Uri_to_string(uri)]
    ELSE Err("redirect")

\* Response::render(redirect): the redirect's status and Location header
render(res, redirect) ==
    [res EXCEPT !.status_code = Some(redirect.status_code),
                !.location = Some(redirect.location)]

\* -------------------------------------------------------------- TrailingSlash
Actions == {"Add", "Remove"}

\* default_add_filter with the test of the last segment inverted
default_add_filter_inverted(req) ==
    LET r == rsplit_once(Uri_path(req.uri), "/")
    IN  IF is_some(r) THEN contains(unwrap(r)[2], ".") ELSE FALSE

\* default_add_filter
default_add_filter(req) ==
    LET r == rsplit_once(Uri_path(req.uri), "/")
    IN  IF is_some(r) THEN ~contains(unwrap(r)[2], ".") ELSE FALSE

\* default_remove_filter with the test of the last segment inverted
default_remove_filter_inverted(req) ==
    LET r == rsplit_once(trim_end_matches(Uri_path(req.uri), "/"), "/")
    IN  IF is_some(r) THEN ~contains(unwrap(r)[2], ".") ELSE FALSE

\* default_remove_filter
default_remove_filter(req) ==
    LET r == rsplit_once(trim_end_matches(Uri_path(req.uri), "/"), "/")
    IN  IF is_some(r) THEN contains(unwrap(r)[2], ".") ELSE FALSE

\* a filter supplied by the caller that rejects every request
never_filter(req) == FALSE

Filters == {"default_add_filter", "default_remove_filter", "never_filter"}

\* f(req) for a stored filter
call_filter(f, req) ==
    CASE f = "default_add_filter" -> default_add_filter(req)
      [] f = "default_remove_filter" -> default_remove_filter(req)
      [] f = "never_filter" -> never_filter(req)

\* TrailingSlash::new
new(action) ==
    [action |-> action, filter |-> None, redirect_code |-> MOVED_PERMANENTLY]

\* TrailingSlash::new_add
new_add == [action |-> "Add", filter |-> None, redirect_code |-> MOVED_PERMANENTLY]

\* TrailingSlash::new_remove
new_remove == [action |-> "Remove", filter |-> None, redirect_code |-> MOVED_PERMANENTLY]

\* TrailingSlash::with_filter
with_filter(self, filter) == [self EXCEPT !.filter = Some(filter)]

\* TrailingSlash::with_redirect_code
with_redirect_code(self, redirect_code) == [self EXCEPT !.redirect_code = redirect_code]

\* add_slash()
add_slash == with_filter(new("Add"), "default_add_filter")

\* remove_slash()
remove_slash == with_filter(new("Remove"), "default_remove_filter")

\* every instance the constructors and builders yield
Instances ==
    LET base == {new(a) : a \in Actions} \cup {new_add, new_remove}
        filtered == base \cup {with_filter(b, f) : b \in base, f \in Filters}
                         \cup {add_slash, remove_slash}
    IN  filtered \cup {with_redirect_code(b, TEMPORARY_REDIRECT) : b \in filtered}

\* handle that never consults the filter
filter_passes_ignored(self, req) == TRUE

\* handle, line 96: the filter, if any, accepts the request
filter_passes(self, req) ==
    IF is_some(self.filter) THEN call_filter(unwrap(self.filter), req) ELSE TRUE

\* handle that strips a single trailing '/' on Remove
new_path_for_strip_one(action, original_path) ==
    LET ends_with_slash == ends_with(original_path, "/")
    IN  IF action = "Add" /\ ~ends_with_slash
        THEN Some(original_path \o <<"/">>)
        ELSE IF action = "Remove" /\ ends_with_slash
        THEN Some(SubSeq(original_path, 1, Len(original_path) - 1))
        ELSE None

\* handle, lines 102-109: the path handed to replace_uri_path, if any
new_path_for(action, original_path) ==
    LET ends_with_slash == ends_with(original_path, "/")
    IN  IF action = "Add" /\ ~ends_with_slash
        THEN Some(original_path \o <<"/">>)
        ELSE IF action = "Remove" /\ ends_with_slash
        THEN Some(trim_end_matches(original_path, "/"))
        ELSE None

\* replace_uri_path that forgets the query
replace_uri_path_drop_query(original_uri, new_path) ==
    Uri_from_parts(original_uri.scheme, original_uri.authority,
                   PathAndQuery_from_str(new_path))

\* replace_uri_path; the unwraps panic on Err, which is returned here
replace_uri_path(original_uri, new_path) ==
    LET path == IF is_some(Uri_query(original_uri))
                THEN new_path \o <<"?">> \o unwrap(Uri_query(original_uri))
                ELSE new_path
    IN  Uri_from_parts(original_uri.scheme, original_uri.authority,
                       PathAndQuery_from_str(path))

\* handle that does not stop the chain
trigger_ctrl_keep(ctrl) == ctrl

\* handle, line 111
trigger_ctrl(ctrl) == skip_rest(ctrl)

\* handle that leaves the body in place
trigger_body_keep(res) == res

\* handle, line 112
trigger_body(res) == set_body(res, "None")

\* handle that redirects with 301 whatever code is configured
trigger_redirect_fixed_code(self, res, new_uri, ok) ==
    LET r == Redirect_with_status_code(MOVED_PERMANENTLY, new_uri, ok)
    IN  IF is_err(r) THEN res ELSE render(res, r)

\* handle, lines 113-120: render the redirect, or log and leave the response
trigger_redirect(self, res, new_uri, ok) ==
    LET r == Redirect_with_status_code(self.redirect_code, new_uri, ok)
    IN  IF is_err(r) THEN res ELSE render(res, r)

\* handle that clears the body before it decides
pass_through_clears_body(rq, rs, ct) ==
    [req |-> rq, res |-> set_body(rs, "None"), ctrl |-> ct, triggered |-> FALSE,
     new_path |-> None, new_uri |-> None, failed |-> FALSE]

\* handle, the return at line 97 and the paths that fall through: nothing
\* is written
pass_through(rq, rs, ct) ==
    [req |-> rq, res |-> rs, ctrl |-> ct, triggered |-> FALSE,
     new_path |-> None, new_uri |-> None, failed |-> FALSE]

\* TrailingSlash::handle: the request, response and control flow it leaves,
\* with what it decided on the way
handle(self, rq, rs, ct, ok) ==
    IF ~filter_passes(self, rq) THEN pass_through(rq, rs, ct)
    ELSE LET original_path == Uri_path(rq.uri)
         IN  IF original_path = <<>> THEN pass_through(rq, rs, ct)
             ELSE LET np == new_path_for(self.action, original_path)
                  IN  IF ~is_some(np) THEN pass_through(rq, rs, ct)
                      ELSE LET new_uri == replace_uri_path(rq.uri, unwrap(np))
                           IN  [req |-> rq,
                                res |-> trigger_redirect(self, trigger_body(rs), new_uri, ok),
                                ctrl |-> trigger_ctrl(ct),
                                triggered |-> TRUE,
                                new_path |-> np,
                                new_uri |-> Some(new_uri),
                                failed |-> ~ok]

\* hello_world, the target handler of the tests
hello_world(res) ==
    [res EXCEPT !.status_code = Some(STATUS_OK), !.body = "Hello World"]

\* ------------------------------------------------------------ state machine
VARIABLES
    inst,       \* the TrailingSlash instance registered as hoop
    pc,         \* "idle", "hoop" (before handle), "next" (after it), "done"
    req,        \* the request in flight
    res,        \* its response
    ctrl,       \* its FlowCtrl
    depot,      \* its Depot
    last,       \* what handle decided for this request
    target_ran, \* the target handler ran for this request
    via,        \* None, or Some(instance) whose redirect led to this request
    hops        \* redirects followed to reach this request

vars == <<inst, pc, req, res, ctrl, depot, last, target_ran, via, hops>>

NoDecision ==
    [triggered |-> FALSE, new_path |-> None, new_uri |-> None, failed |-> FALSE]

Bodies == {"None", "Once"}

Init ==
    /\ inst \in Instances
    /\ pc = "idle"
    /\ req = [uri |-> Uri_from_str(<<"/">>)]
    /\ res = Response_new("None")
    /\ ctrl = [skip_rest |-> FALSE]
    /\ depot = {}
    /\ last = NoDecision
    /\ target_ran = FALSE
    /\ via = None
    /\ hops = 0

\* a request arrives; the response is as the handlers before the hoop left it
Receive(uri, body) ==
    /\ pc = "idle"
    /\ pc' = "hoop"
    /\ req' = [uri |-> uri]
    /\ res' = Response_new(body)
    /\ ctrl' = [skip_rest |-> FALSE]
    /\ depot' = {}
    /\ last' = NoDecision
    /\ target_ran' = FALSE
    /\ via' = None
    /\ hops' = 0
    /\ UNCHANGED inst

\* the chain runs TrailingSlash::handle; `ok` is the outcome of the redirect
\* construction.  An Err out of replace_uri_path would be a panic at its
\* unwrap: no step of the chain follows it.
Handle(ok) ==
    /\ pc = "hoop"
    /\ LET h == handle(inst, req, res, ctrl, ok)
       IN  /\ ~is_err(IF h.triggered THEN unwrap(h.new_uri) ELSE req.uri)
           /\ req' = h.req
           /\ res' = h.res
           /\ ctrl' = h.ctrl
           /\ last' = [triggered |-> h.triggered, new_path |-> h.new_path,
                       new_uri |-> h.new_uri, failed |-> h.failed]
    /\ pc' = "next"
    /\ UNCHANGED <<inst, depot, target_ran, via, hops>>

\* the chain goes on to the target handler
Target ==
    /\ pc = "next"
    /\ ~ctrl.skip_rest
    /\ res' = hello_world(res)
    /\ target_ran' = TRUE
    /\ pc' = "done"
    /\ UNCHANGED <<inst, req, ctrl, depot, last, via, hops>>

\* skip_rest is set: the chain ends without the target handler
Skip ==
    /\ pc = "next"
    /\ ctrl.skip_rest
    /\ pc' = "done"
    /\ UNCHANGED <<inst, req, res, ctrl, depot, last, target_ran, via, hops>>

\* the client follows the Location header; the request for it reaches the
\* same normalizer, or one of the two shipped ones
FollowRedirect(i) ==
    /\ pc = "done"
    /\ hops < MaxHops
    /\ is_some(res.location)
    /\ ~is_err(Uri_from_str(unwrap(res.location)))
    /\ req' = [uri |-> Uri_from_str(unwrap(res.location))]
    /\ res' = Response_new("None")
    /\ ctrl' = [skip_rest |-> FALSE]
    /\ depot' = {}
    /\ last' = NoDecision
    /\ target_ran' = FALSE
    /\ via' = Some(inst)
    /\ inst' = i
    /\ hops' = hops + 1
    /\ pc' = "hoop"

\* the response is sent; the service waits for the next request
Finish ==
    /\ pc = "done"
    /\ pc' = "idle"
    /\ req' = [uri |-> Uri_from_str(<<"/">>)]
    /\ res' = Response_new("None")
    /\ ctrl' = [skip_rest |-> FALSE]
    /\ depot' = {}
    /\ last' = NoDecision
    /\ target_ran' = FALSE
    /\ via' = None
    /\ hops' = 0
    /\ UNCHANGED inst

Next ==
    \/ \E uri \in RequestUris, body \in Bodies : Receive(uri, body)
    \/ \E ok \in BOOLEAN : Handle(ok)
    \/ Target
    \/ Skip
    \/ \E i \in {inst, add_slash, remove_slash} : FollowRedirect(i)
    \/ Finish

Spec == Init /\ [][Next]_vars

\* ------------------------------------------------------------------- claims
Handled == pc \in {"next", "done"}
OriginalPath == Uri_path(req.uri)
FilterRejects == is_some(inst.filter) /\ ~call_filter(unwrap(inst.filter), req)
HandleStep == pc = "hoop" /\ pc' = "next"

\* C1: whenever handle triggers a redirect, skip_rest is set by that call and
\* the target handler is never run afterwards, so its status and body do not
\* appear in the response.
C1_TriggerSkipsTarget ==
    (Handled /\ last.triggered) =>
        /\ ctrl.skip_rest
        /\ ~target_ran
        /\ res.body # "Hello World"
        /\ res.status_code # Some(STATUS_OK)

C1_Witness == pc = "done" /\ last.triggered /\ ctrl.skip_rest /\ ~target_ran

\* C2: for a request that passes the filter and has a non-empty path, handle
\* triggers iff (Add and the path does not end with '/') or (Remove and it
\* does); on Add the new path is the path plus one '/', on Remove it is the
\* path without its trailing '/' characters; an empty path never triggers.
C2_TriggerTable ==
    Handled =>
        LET p == OriginalPath
            n == Len(p)
            slash == n > 0 /\ p[n] = "/"
        IN  /\ (p = <<>>) => ~last.triggered
            /\ (~FilterRejects /\ p # <<>>) =>
                 /\ last.triggered <=>
                      \/ (inst.action = "Add" /\ ~slash)
                      \/ (inst.action = "Remove" /\ slash)
                 /\ (last.triggered /\ inst.action = "Add") =>
                      /\ Len(unwrap(last.new_path)) = n + 1
                      /\ SubSeq(unwrap(last.new_path), 1, n) = p
                      /\ unwrap(last.new_path)[n + 1] = "/"
                 /\ (last.triggered /\ inst.action = "Remove") =>
                      LET k == Len(unwrap(last.new_path))
                      IN  /\ k < n
                          /\ unwrap(last.new_path) = SubSeq(p, 1, k)
                          /\ \A j \in (k + 1)..n : p[j] = "/"
                          /\ k > 0 => p[k] # "/"

C2_Witness ==
    /\ Handled /\ last.triggered /\ inst.action = "Remove"
    /\ Len(OriginalPath) - Len(unwrap(last.new_path)) >= 2
    /\ unwrap(last.new_path) # <<>>

C5_FilterGates ==
    /\ [][(HandleStep /\ FilterRejects) =>
            /\ ~last'.triggered
            /\ res' = res
            /\ ctrl' = ctrl
            /\ ~ctrl'.skip_rest
            /\ res'.location = None]_vars
    /\ []((pc = "done" /\ FilterRejects) => target_ran)

C5_Witness ==
    /\ pc = "done" /\ FilterRejects /\ target_ran
    /\ inst.filter = Some("never_filter")
    /\ inst.action = "Remove" /\ ends_with(OriginalPath, "/")

\* C6: default_add_filter is true iff the path contains a '/' and the text
\* after its last '/' contains no '.'; default_remove_filter is true iff the
\* path without its trailing '/' characters contains a '/' and the text after
\* its last '/' contains a '.'.  /hello -> add true, /hello.world -> add
\* false, /hello/ -> remove false, /hello.world/ -> remove true.
C6_DefaultFilters ==
    LET p == OriginalPath
        n == Len(p)
        R(s) == [uri |-> Uri_from_str(s)]
    IN  /\ default_add_filter(req) <=>
             \E i \in 1..n :
                /\ p[i] = "/"
                /\ \A j \in (i + 1)..n : p[j] # "/" /\ p[j] # "."
        /\ default_remove_filter(req) <=>
             \E k \in 0..n :
                /\ \A j \in (k + 1)..n : p[j] = "/"
                /\ k > 0 => p[k] # "/"
                /\ \E i \in 1..k :
                      /\ p[i] = "/"
                      /\ \A j \in (i + 1)..k : p[j] # "/"
                      /\ \E j \in (i + 1)..k : p[j] = "."
        /\ default_add_filter(R(<<"/", "a">>))
        /\ ~default_add_filter(R(<<"/", "a", ".", "a">>))
        /\ ~default_remove_filter(R(<<"/", "a", "/">>))
        /\ default_remove_filter(R(<<"/", "a", ".", "a", "/">>))

C6_Witness ==
    /\ pc = "hoop"
    /\ default_remove_filter(req) /\ default_add_filter(req)
    /\ ends_with(OriginalPath, "/")

\* C7: normalization is idempotent across a redirect round trip: a request
\* for the URI an instance redirected to never triggers that instance again.
C7_NoSecondRedirect ==
    (Handled /\ via = Some(inst)) => ~last.triggered

\* C8: whenever handle does not trigger it leaves the response, the control
\* flow, the depot and the request unchanged, so the target handler runs and
\* its status 200 is what the client sees.
C8_PassThroughFrame ==
    /\ [][(HandleStep /\ ~last'.triggered) =>
            /\ res' = res
            /\ ctrl' = ctrl
            /\ depot' = depot
            /\ req' = req]_vars
    /\ []((pc = "done" /\ ~last.triggered) =>
            /\ target_ran
            /\ res.status_code = Some(STATUS_OK)
            /\ res.body = "Hello World")

C8_Witness ==
    /\ pc = "done" /\ ~last.triggered /\ target_ran
    /\ ~FilterRejects
    /\ inst.action = "Add" /\ ends_with(OriginalPath, "/")
    /\ res.status_code = Some(STATUS_OK)

\* C9: when normalization triggers but the redirect cannot be constructed,
\* no Location header and no redirect status are written, the request goes
\* on, skip_rest is set and the body is cleared, so the target handler is
\* skipped and the client gets neither the redirect nor the target response.
C9_FailedRedirect ==
    (Handled /\ last.failed) =>
        /\ last.triggered
        /\ res.location = None
        /\ res.status_code = None
        /\ ctrl.skip_rest
        /\ res.body = "None"
        /\ ~target_ran

C9_Witness ==
    pc = "done" /\ last.failed /\ ctrl.skip_rest /\ res.location = None

\* C10: add_slash() and remove_slash() never undo each other: a request for
\* the URI either of them redirected to triggers neither of them, so every
\* path is at rest after at most one redirect.
C10_ShippedAtRest ==
    (Handled /\ is_some(via) /\ {inst, via[1]} \subseteq {add_slash, remove_slash}) =>
        ~last.triggered

C10_Witness ==
    /\ pc = "done" /\ via = Some(add_slash) /\ inst = remove_slash
    /\ ~last.triggered /\ target_ran
====
